---- MODULE Spec2Model ----
(***************************************************************************)
(* tg-wp-bridge: Telegram webhook updates mirrored to WordPress posts.     *)
(*                                                                         *)
(* Strings are sequences of one-character strings; multi-character HTML    *)
(* fragments the program emits are single elements of such a sequence.     *)
(* An Optional[T] value is a sequence of length at most one: None is <<>>  *)
(* and a present value x is <<x>>.                                         *)
(***************************************************************************)
EXTENDS Integers, Sequences, FiniteSets, TLC

\* ------------------------------------------------------------------ bounds
\* Longest text the parser specification enumerates.
MaxTextLen == 4
\* Longest photo list the parser specification enumerates.
MaxPhotos == 3
\* Largest width / height of a photo variant.
MaxDim == 2
\* Largest attachment id the destination platform hands out (ids 0..MaxWpId).
MaxWpId == 1
\* Most whitespace-separated tokens of the texts built from sample tokens.
MaxTokens == 3
\* Longest text over the paragraph alphabet.
MaxHtmlLen == 6

\* ------------------------------------------------------- Python primitives
None == <<>>
Some(x) == <<x>>
Get(o) == o[1]

\* Whitespace characters of str.strip() / str.split() within the alphabet.
WS == {" ", "\n"}

RECURSIVE lstrip(_, _)
lstrip(s, cs) ==
    IF s # <<>> /\ Head(s) \in cs THEN lstrip(Tail(s), cs) ELSE s

RECURSIVE rstrip(_, _)
rstrip(s, cs) ==
    IF s # <<>> /\ s[Len(s)] \in cs
    THEN rstrip(SubSeq(s, 1, Len(s) - 1), cs)
    ELSE s

\* str.strip()
strip(s) == lstrip(rstrip(s, WS), WS)

\* str.startswith(c) for a one-character prefix
startswith(s, c) == s # <<>> /\ Head(s) = c

RECURSIVE SplitAcc(_, _, _, _)
SplitAcc(s, seps, cur, acc) ==
    IF s = <<>> THEN Append(acc, cur)
    ELSE IF Head(s) \in seps
         THEN SplitAcc(Tail(s), seps, <<>>, Append(acc, cur))
         ELSE SplitAcc(Tail(s), seps, Append(cur, Head(s)), acc)

\* str.split(sep) for a one-character separator: empty pieces are kept
SplitChar(s, seps) == SplitAcc(s, seps, <<>>, <<>>)

NonEmptyStr(t) == t # <<>>

\* str.split(): split at runs of whitespace, no empty pieces
split(s) == SelectSeq(SplitChar(s, WS), NonEmptyStr)

\* str.splitlines(): no trailing empty line after a final newline
splitlines(s) ==
    LET parts == SplitChar(s, {"\n"})
    IN  IF parts[Len(parts)] = <<>>
        THEN SubSeq(parts, 1, Len(parts) - 1)
        ELSE parts

RECURSIVE SplitParaAcc(_, _, _)
SplitParaAcc(s, cur, acc) ==
    IF s = <<>> THEN Append(acc, cur)
    ELSE IF Len(s) >= 2 /\ s[1] = "\n" /\ s[2] = "\n"
         THEN SplitParaAcc(SubSeq(s, 3, Len(s)), <<>>, Append(acc, cur))
         ELSE SplitParaAcc(Tail(s), Append(cur, Head(s)), acc)

\* str.split("\n\n"): leftmost non-overlapping occurrences
SplitPara(s) == SplitParaAcc(s, <<>>, <<>>)

RECURSIVE Join(_, _)
\* sep.join(parts)
Join(parts, sep) ==
    IF parts = <<>> THEN <<>>
    ELSE IF Len(parts) = 1 THEN parts[1]
    ELSE parts[1] \o sep \o Join(Tail(parts), sep)

RECURSIVE Concat(_)
\* "".join(parts)
Concat(parts) == IF parts = <<>> THEN <<>> ELSE Head(parts) \o Concat(Tail(parts))

\* Python truthiness of an Optional[str]: None and "" are falsy
TruthyStr(o) == o # None /\ Get(o) # <<>>

\* Python truthiness of an Optional[model object]: every present object is truthy
TruthyObj(o) == o # None

\* ------------------------------------------------------------ message_parser
extract_message_entity_swapped(update) ==
    IF TruthyObj(update.message) THEN update.message ELSE update.channel_post

extract_message_entity(update) ==
    IF TruthyObj(update.channel_post) THEN update.channel_post ELSE update.message

extract_message_text_caption_first(update) ==
    LET msg == extract_message_entity(update)
    IN  IF ~TruthyObj(msg) THEN None
        ELSE IF TruthyStr(Get(msg).caption) THEN Get(msg).caption ELSE Get(msg).text

extract_message_text(update) ==
    LET msg == extract_message_entity(update)
    IN  IF ~TruthyObj(msg) THEN None
        ELSE IF TruthyStr(Get(msg).text) THEN Get(msg).text ELSE Get(msg).caption

Area(p) == p.width * p.height

RECURSIVE MaxIndexFrom(_, _, _)
\* Python's max(seq, key=...): the first element whose key is greatest
MaxIndexFrom(photo, i, best) ==
    IF i > Len(photo) THEN best
    ELSE IF Area(photo[i]) > Area(photo[best])
         THEN MaxIndexFrom(photo, i + 1, i)
         ELSE MaxIndexFrom(photo, i + 1, best)

RECURSIVE MaxIndexFromLast(_, _, _)
MaxIndexFromLast(photo, i, best) ==
    IF i > Len(photo) THEN best
    ELSE IF Area(photo[i]) >= Area(photo[best])
         THEN MaxIndexFromLast(photo, i + 1, i)
         ELSE MaxIndexFromLast(photo, i + 1, best)

MaxPhotoIndexLast(photo) == MaxIndexFromLast(photo, 2, 1)

MaxPhotoIndex(photo) == MaxIndexFrom(photo, 2, 1)

\* index into msg.photo of the variant returned, 0 when None is returned
find_photo_index(msg) ==
    IF msg.photo = None \/ Get(msg.photo) = <<>> THEN 0
    ELSE MaxPhotoIndex(Get(msg.photo))

find_photo_with_max_size_first_variant(msg) ==
    IF msg.photo = None \/ Get(msg.photo) = <<>> THEN None
    ELSE Some(Get(msg.photo)[1])

find_photo_with_max_size(msg) ==
    IF find_photo_index(msg) = 0 THEN None
    ELSE Some(Get(msg.photo)[find_photo_index(msg)])

RStripFirst == {".", ",", "!", "?", ":", ";", ")", "]", "}"}
LStripFirst == {"(", "[", "{"}
RStripSecond == RStripFirst \cup LStripFirst

HashtagOfToken_single_strip(raw_token) ==
    IF ~startswith(raw_token, "#") THEN None
    ELSE LET token == lstrip(rstrip(raw_token, RStripFirst), LStripFirst)
         IN  IF ~startswith(token, "#") THEN None
             ELSE IF token = <<"#">> \/ Len(token) < 2 THEN None ELSE Some(token)

\* the body of the loop of extract_hashtags for one token: None when skipped
HashtagOfToken(raw_token) ==
    IF ~startswith(raw_token, "#") THEN None
    ELSE LET token == lstrip(rstrip(raw_token, RStripFirst), LStripFirst)
         IN  IF ~startswith(token, "#") THEN None
             ELSE LET t2 == rstrip(token, RStripSecond)
                  IN  IF t2 = <<"#">> \/ Len(t2) < 2 THEN None ELSE Some(t2)

InSeq(x, s) == \E i \in DOMAIN s : s[i] = x

RECURSIVE HashtagLoop(_, _)
HashtagLoop(tokens, hashtags) ==
    IF tokens = <<>> THEN hashtags
    ELSE LET t == HashtagOfToken(Head(tokens))
         IN  IF t # None /\ ~InSeq(Get(t), hashtags)
             THEN HashtagLoop(Tail(tokens), Append(hashtags, Get(t)))
             ELSE HashtagLoop(Tail(tokens), hashtags)

extract_hashtags(text) == HashtagLoop(split(text), <<>>)

NotHashtagWord(w) == ~startswith(w, "#")

DropLeadingHashtags_all(words) == SelectSeq(words, NotHashtagWord)

RECURSIVE DropLeadingHashtags(_)
\* the words kept by the dropping_hashtags loop
DropLeadingHashtags(words) ==
    IF words # <<>> /\ startswith(Head(words), "#")
    THEN DropLeadingHashtags(Tail(words))
    ELSE words

Truncate(s, n) == IF Len(s) > n THEN SubSeq(s, 1, n) ELSE s

NoTitle == <<"(no title)">>

\* the candidate title of one line, <<>> when the line yields none
TitleCandidate(raw_line) ==
    LET line == strip(raw_line)
        filtered_words == DropLeadingHashtags(split(line))
    IN  IF line = <<>> THEN <<>>
        ELSE IF filtered_words # <<>>
             THEN strip(Join(filtered_words, <<" ">>))
             ELSE strip(line)

RECURSIVE TitleLoop(_, _)
TitleLoop(lines, max_length) ==
    IF lines = <<>> THEN NoTitle
    ELSE IF TitleCandidate(Head(lines)) = <<>>
         THEN TitleLoop(Tail(lines), max_length)
         ELSE Truncate(TitleCandidate(Head(lines)), max_length)

build_title_from_text(text, max_length) == TitleLoop(splitlines(text), max_length)

DefaultMaxLength == 60

HtmlParagraph_no_br(para) == <<"<p>">> \o para \o <<"</p>">>

HtmlParagraph(para) ==
    <<"<p>">> \o Join(SplitChar(para, {"\n"}), <<"<br>">>) \o <<"</p>">>

text_to_html(text) ==
    LET stripped == strip(text)
        paragraphs == SplitPara(stripped)
    IN  IF stripped = <<>> THEN <<"<p>", "</p>">>
        ELSE Concat([i \in DOMAIN paragraphs |-> HtmlParagraph(paragraphs[i])])

\* ------------------------------------------------- collect_supported_media
\* TelegramMedia descriptor
TelegramMedia(media_type, file_id, file_name, mime_type) ==
    [media_type |-> media_type, file_id |-> file_id,
     file_name |-> file_name, mime_type |-> mime_type]

\* the candidate descriptors of a message in the order photo, video,
\* animation, document
MediaCandidates(msg) ==
    (IF find_photo_with_max_size(msg) = None THEN <<>>
     ELSE <<TelegramMedia("photo", Get(find_photo_with_max_size(msg)).file_id,
                          None, None)>>)
    \o (IF msg.video = None THEN <<>>
        ELSE <<TelegramMedia("video", Get(msg.video).file_id,
                             Get(msg.video).file_name, Get(msg.video).mime_type)>>)
    \o (IF msg.animation = None THEN <<>>
        ELSE <<TelegramMedia("animation", Get(msg.animation).file_id,
                             Get(msg.animation).file_name,
                             Get(msg.animation).mime_type)>>)
    \o (IF msg.document = None THEN <<>>
        ELSE <<TelegramMedia("document", Get(msg.document).file_id,
                             Get(msg.document).file_name,
                             Get(msg.document).mime_type)>>)

DedupeByFileId_keep_all(cands, out) == out \o cands

RECURSIVE DedupeByFileId(_, _)
DedupeByFileId(cands, out) ==
    IF cands = <<>> THEN out
    ELSE IF \E j \in DOMAIN out : out[j].file_id = Head(cands).file_id
         THEN DedupeByFileId(Tail(cands), out)
         ELSE DedupeByFileId(Tail(cands), Append(out, Head(cands)))

collect_supported_media(msg) == DedupeByFileId(MediaCandidates(msg), <<>>)

\* ------------------------------------------------------------ wordpress_api
\* Values a Python name can hold where the program mixes types.
PyNone == [t |-> "None", v |-> 0, source_url |-> None]
PyInt(n) == [t |-> "int", v |-> n, source_url |-> None]
WPMediaResponse(id, source_url) ==
    [t |-> "WPMediaResponse", v |-> id, source_url |-> source_url]

\* bool(x) of such a value
Truthy(x) ==
    CASE x.t = "None" -> FALSE
      [] x.t = "int" -> x.v # 0
      [] OTHER -> TRUE

\* hasattr(x, "id")
HasAttrId(x) == x.t = "WPMediaResponse"

\* What a call returns or raises.
Returns(x) == [raised |-> FALSE, exc |-> "", value |-> x]
Raises(e) == [raised |-> TRUE, exc |-> e, value |-> PyNone]

\* Answers of the WordPress media endpoint: an HTTP error status, a body that
\* fails validation, or a media object.
HttpError == [kind |-> "http_error", id |-> 0, source_url |-> None]
HttpInvalid == [kind |-> "invalid", id |-> 0, source_url |-> None]
HttpOk(id, source_url) == [kind |-> "ok", id |-> id, source_url |-> source_url]

\* upload_media_to_wp: _ensure_wp_base_url / wp_auth_header raise outside the
\* try block; inside it every failure becomes None and success returns media.id
upload_media_to_wp_result(wp_configured, http) ==
    IF ~wp_configured THEN Raises("RuntimeError")
    ELSE IF http.kind = "ok"
         THEN Returns(PyInt(http.id))
         ELSE Returns(PyNone)

\* The request body create_wp_post sends.
PostPayload(title, content_html, media_ids) ==
    [title |-> IF title # <<>> THEN title ELSE NoTitle,
     content |-> content_html,
     featured_media |-> IF media_ids # <<>> THEN Some(media_ids[1]) ELSE None]

\* create_wp_post: nothing it raises is caught
create_wp_post_result(wp_configured, http_kind) ==
    IF ~wp_configured THEN Raises("RuntimeError")
    ELSE IF http_kind = "http_error" THEN Raises("HTTPStatusError")
    ELSE IF http_kind = "invalid" THEN Raises("ValidationError")
    ELSE Returns(PyNone)

\* ------------------------------------------------------------- telegram_api
\* What the Bot API answers: an HTTP error status, or a JSON envelope with ok
\* and, as the platform sends them, description and result.
ApiStatusError == [status_error |-> TRUE, data |-> <<>>]
ApiEnvelope(ok, description, result) ==
    [status_error |-> FALSE,
     data |-> [ok |-> ok, description |-> description, result |-> result]]

\* set_webhook: the configuration is checked in this order before the request
set_webhook_result(bot_token_set, public_base_url_set, webhook_secret, answer) ==
    IF ~bot_token_set THEN Raises("RuntimeError")
    ELSE IF ~public_base_url_set THEN Raises("RuntimeError")
    ELSE IF ~TruthyStr(webhook_secret) THEN Raises("RuntimeError")
    ELSE IF answer.status_error THEN Raises("HTTPStatusError")
    ELSE Returns(answer.data)

\* TelegramWebhookInfo with the fields the model follows; extra="allow" keeps
\* the keys that are not fields
TelegramWebhookInfo(url, pending_update_count, extra) ==
    [url |-> url, pending_update_count |-> pending_update_count, extra |-> extra]

\* TelegramWebhookInfo.model_validate of an envelope: the envelope has no url
\* and no pending_update_count key, so the fields take their defaults and ok,
\* description and result are kept as extra keys
ValidateEnvelopeAsInfo(data) == TelegramWebhookInfo(None, 0, data)

\* get_webhook_info: data = resp.json() is validated as it is; data["ok"] is
\* not read
get_webhook_info_result(bot_token_set, answer) ==
    IF ~bot_token_set THEN Raises("RuntimeError")
    ELSE IF answer.status_error THEN Raises("HTTPStatusError")
    ELSE Returns(ValidateEnvelopeAsInfo(answer.data))

\* ---------------------------------------------------------------------- app
\* html.escape of one character
EscapeChar(c) ==
    CASE c = "&" -> "&amp;"
      [] c = "<" -> "&lt;"
      [] c = ">" -> "&gt;"
      [] c = "\"" -> "&quot;"
      [] c = "'" -> "&#x27;"
      [] OTHER -> c

escape(s) == [i \in DOMAIN s |-> EscapeChar(s[i])]

\* one section of _build_media_gallery, <<>> when the item has no source URL
MediaSection(descriptor, wp_media) ==
    IF wp_media.source_url = None THEN <<>>
    ELSE LET safe_url == escape(Get(wp_media.source_url))
         IN  IF descriptor.media_type = "photo"
             THEN <<"<figure class=\"telegram-media telegram-photo\"><img src=\"">>
                  \o safe_url \o <<"\" alt=\"Telegram photo\"></figure>">>
             ELSE IF descriptor.media_type \in {"video", "animation"}
             THEN <<"<figure class=\"telegram-media telegram-", descriptor.media_type,
                    "\"><video controls src=\"">> \o safe_url \o <<"\"><a href=\"">>
                  \o safe_url \o <<"\">Download media</a></video></figure>">>
             ELSE <<"<p class=\"telegram-media telegram-link\"><a href=\"">>
                  \o safe_url \o <<"\">Download attachment</a></p>">>

_build_media_gallery(uploaded) ==
    Concat([k \in DOMAIN uploaded |->
                MediaSection(uploaded[k].descriptor, uploaded[k].wp_media)])

\* _filename_from_url: the last path component of the URL, if any
_filename_from_url(file_url) == file_url.path_name

\* mimetypes.guess_type(filename)[0] on the file names of the model
GuessType(filename) ==
    CASE filename = <<"photo.jpg">> -> Some(<<"image/jpeg">>)
      [] filename = <<"clip.mp4">> -> Some(<<"video/mp4">>)
      [] OTHER -> None

\* file name and content type _download_and_upload_media passes to the upload;
\* file ids of the model are shorter than 8 characters, so file_id[:8] is file_id
UploadFilename(media, file_url) ==
    IF TruthyStr(media.file_name) THEN Get(media.file_name)
    ELSE IF TruthyStr(_filename_from_url(file_url))
         THEN Get(_filename_from_url(file_url))
         ELSE <<"telegram-", media.media_type, "-", media.file_id>>

UploadContentType(media, file_url) ==
    IF TruthyStr(media.mime_type) THEN Get(media.mime_type)
    ELSE IF TruthyStr(GuessType(UploadFilename(media, file_url)))
         THEN Get(GuessType(UploadFilename(media, file_url)))
         ELSE <<"application/octet-stream">>

\* text = extract_message_text(update) or ""
EffectiveText(update) ==
    IF TruthyStr(extract_message_text(update))
    THEN Get(extract_message_text(update))
    ELSE <<>>

\* hashtags = extract_hashtags(text) if text else []
EffectiveHashtags(text) == IF text # <<>> THEN extract_hashtags(text) ELSE <<>>

RequiredHashtagMissing_unless_untagged(st, hashtags) ==
    /\ TruthyStr(st.required_hashtag)
    /\ hashtags # <<>>
    /\ ~InSeq(Get(st.required_hashtag), hashtags)

\* the required-hashtag test of handle_telegram_update
RequiredHashtagMissing(st, hashtags) ==
    /\ TruthyStr(st.required_hashtag)
    /\ ~InSeq(Get(st.required_hashtag), hashtags)

NoAllowedHashtag_unless_untagged(st, hashtags) ==
    /\ st.hashtag_allowlist # None
    /\ Get(st.hashtag_allowlist) # <<>>
    /\ hashtags # <<>>
    /\ ~\E k \in DOMAIN Get(st.hashtag_allowlist) :
           InSeq(Get(st.hashtag_allowlist)[k], hashtags)

\* the allowlist test of handle_telegram_update
NoAllowedHashtag(st, hashtags) ==
    /\ st.hashtag_allowlist # None
    /\ Get(st.hashtag_allowlist) # <<>>
    /\ ~\E k \in DOMAIN Get(st.hashtag_allowlist) :
           InSeq(Get(st.hashtag_allowlist)[k], hashtags)

Blocked_unless_allowed(st, hashtags) ==
    /\ st.hashtag_blocklist # None
    /\ Get(st.hashtag_blocklist) # <<>>
    /\ \E k \in DOMAIN Get(st.hashtag_blocklist) :
           InSeq(Get(st.hashtag_blocklist)[k], hashtags)
    /\ ~(/\ st.hashtag_allowlist # None
         /\ \E k \in DOMAIN Get(st.hashtag_allowlist) :
                InSeq(Get(st.hashtag_allowlist)[k], hashtags))

\* the blocklist test of handle_telegram_update
Blocked(st, hashtags) ==
    /\ st.hashtag_blocklist # None
    /\ Get(st.hashtag_blocklist) # <<>>
    /\ \E k \in DOMAIN Get(st.hashtag_blocklist) :
           InSeq(Get(st.hashtag_blocklist)[k], hashtags)

FilterVerdict_without_content_check(st, update) ==
    LET msg == extract_message_entity(update)
        text == EffectiveText(update)
        hashtags == EffectiveHashtags(text)
    IN  IF ~TruthyObj(msg) THEN "no_message"
        ELSE IF /\ st.chat_type_allowlist # <<>>
                /\ ~InSeq(Get(msg).chat.type, st.chat_type_allowlist)
             THEN "chat_type"
        ELSE IF RequiredHashtagMissing(st, hashtags) THEN "required_hashtag"
        ELSE IF NoAllowedHashtag(st, hashtags) THEN "hashtag_allowlist"
        ELSE IF Blocked(st, hashtags) THEN "hashtag_blocklist"
        ELSE "accepted"

\* The early returns of handle_telegram_update, in the order of the code;
\* "accepted" when none is taken.
FilterVerdict(st, update) ==
    LET msg == extract_message_entity(update)
        text == EffectiveText(update)
        hashtags == EffectiveHashtags(text)
    IN  IF ~TruthyObj(msg) THEN "no_message"
        ELSE IF /\ st.chat_type_allowlist # <<>>
                /\ ~InSeq(Get(msg).chat.type, st.chat_type_allowlist)
             THEN "chat_type"
        ELSE IF strip(text) = <<>> /\ collect_supported_media(Get(msg)) = <<>>
             THEN "no_content"
        ELSE IF RequiredHashtagMissing(st, hashtags) THEN "required_hashtag"
        ELSE IF NoAllowedHashtag(st, hashtags) THEN "hashtag_allowlist"
        ELSE IF Blocked(st, hashtags) THEN "hashtag_blocklist"
        ELSE "accepted"

\* --------------------------------------------------------------- the state
VARIABLES
    settings,   \* the Settings singleton
    h,          \* per webhook request: the frame of telegram_webhook and of
                \* the handle_telegram_update call it makes
    posts,      \* payloads of the posts the destination platform created
    call        \* parser specification: the last pure function applied

vars == <<settings, h, posts, call>>

\* the webhook requests of the model
Requests == {"r1", "r2"}

NoUpdate == [message |-> None, channel_post |-> None]
NoResponse == [status |-> 0, ok |-> FALSE, error |-> ""]
NoCall == [fn |-> "none", arg |-> <<>>, ret |-> <<>>]

IdleFrame ==
    [pc |-> "idle", secret |-> <<>>, update |-> NoUpdate, invoked |-> FALSE,
     verdict |-> "none", msg |-> None, text |-> <<>>, media_entries |-> <<>>,
     hashtags |-> <<>>, title |-> <<>>, content_html |-> <<>>,
     media_ids |-> <<>>, uploaded_media |-> <<>>, i |-> 0, stage |-> <<>>,
     file_url |-> None, upload_call |-> None, upload_ret |-> None,
     ok_ids |-> <<>>, wp_accepted |-> <<>>, calls |-> <<>>,
     post_call |-> None, post_outcome |-> "none",
     result |-> "none", exc |-> "", response |-> NoResponse]

\* --------------------------------------------------------------- the inputs
TagA == <<"#", "a">>
TagB == <<"#", "b">>

SettingsSpace ==
    [telegram_webhook_secret : {None, Some(<<>>), Some(<<"s">>)},
     chat_type_allowlist : {<<>>, <<"channel">>},
     required_hashtag : {None, Some(<<>>), Some(TagA)},
     hashtag_allowlist : {None, Some(<<TagA, TagB>>)},
     hashtag_blocklist : {None, Some(<<TagB>>)},
     wp_configured : BOOLEAN]

PathSecrets == {<<"s">>, <<"x">>}

TgPhotoSize(file_id, width, height) ==
    [file_id |-> file_id, width |-> width, height |-> height]

TgFileBase(file_id, file_name, mime_type) ==
    [file_id |-> file_id, file_name |-> file_name, mime_type |-> mime_type]

TgMessage(chat_type, text, caption, media) ==
    [chat |-> [type |-> chat_type], text |-> text, caption |-> caption,
     photo |-> media[1], video |-> media[2], animation |-> media[3],
     document |-> media[4]]

\* <<text, caption>> of the messages the webhook receives
TextCaptionSamples ==
    { <<None, None>>,
      <<Some(<<>>), None>>,
      <<Some(<<>>), Some(TagA)>>,
      <<None, Some(TagA \o <<" ">> \o TagB)>>,
      <<Some(<<" ", "\n">>), None>>,
      <<Some(<<"x">>), None>>,
      <<Some(TagA \o <<" ", "x">>), Some(TagB)>>,
      <<Some(TagA \o <<" ">> \o TagB \o <<".">>), None>>,
      <<Some(TagB \o <<"\n", "\n", "x">>), None>> }

\* <<photo, video, animation, document>> of the messages the webhook receives
MediaSamples ==
    { <<None, None, None, None>>,
      <<Some(<<TgPhotoSize("p1", 1, 1)>>), None, None, None>>,
      <<Some(<<TgPhotoSize("p1", 1, 2), TgPhotoSize("p2", 2, 2)>>),
        Some(TgFileBase("v1", Some(<<"clip.mp4">>), Some(<<"video/mp4">>))),
        None, None>>,
      <<None, None, Some(TgFileBase("d1", None, None)),
        Some(TgFileBase("d1", Some(<<"fun.gif">>), None))>> }

\* the texts that come with media
MediaTextCaptionSamples ==
    { <<None, None>>,
      <<Some(<<>>), Some(TagA)>>,
      <<Some(<<"x">>), None>>,
      <<Some(TagA \o <<" ">> \o TagB \o <<".">>), None>> }

NoMedia == <<None, None, None, None>>

MessagesOf(chat_type) ==
    { TgMessage(chat_type, tc[1], tc[2], NoMedia) : tc \in TextCaptionSamples }
    \cup { TgMessage(chat_type, tc[1], tc[2], m) :
             tc \in MediaTextCaptionSamples, m \in MediaSamples \ {NoMedia} }

Messages == MessagesOf("channel") \cup MessagesOf("private")

\* a message unlike every message of Messages, for the slot that must lose
OtherMessage ==
    TgMessage("group", Some(<<"o">>), Some(<<"o", "c">>),
              <<None, None, None, Some(TgFileBase("o1", None, None))>>)

Updates ==
    {NoUpdate}
    \cup { [message |-> None, channel_post |-> Some(m)] : m \in Messages }
    \cup { [message |-> Some(m), channel_post |-> None] : m \in MessagesOf("private") }
    \cup { [message |-> Some(OtherMessage), channel_post |-> Some(m)] :
             m \in MessagesOf("channel") }

\* what get_file_direct_url does: raise, return None, or return a URL
FileUrls == { [path_name |-> Some(<<"photo.jpg">>)], [path_name |-> None] }
UrlOutcomes ==
    { [raised |-> TRUE, url |-> None], [raised |-> FALSE, url |-> None] }
    \cup { [raised |-> FALSE, url |-> Some(u)] : u \in FileUrls }

SourceUrl == <<"u", "?", "a", "&", "b">>
HttpResults ==
    {HttpError, HttpInvalid}
    \cup { HttpOk(id, su) : id \in 0..MaxWpId, su \in {None, Some(SourceUrl)} }

\* ------------------------------------------------------------- the handler
Forbidden == [status |-> 403, ok |-> FALSE, error |-> "Forbidden"]

telegram_webhook_response_500(result, exc) ==
    IF result = "raised"
    THEN [status |-> 500, ok |-> FALSE, error |-> exc]
    ELSE [status |-> 200, ok |-> TRUE, error |-> ""]

\* telegram_webhook's try / except around handle_telegram_update
telegram_webhook_response(result, exc) ==
    IF result = "raised"
    THEN [status |-> 200, ok |-> FALSE, error |-> exc]
    ELSE [status |-> 200, ok |-> TRUE, error |-> ""]

\* handle_telegram_update returns or raises; telegram_webhook answers
Finish(f, result, exc) ==
    [f EXCEPT !.pc = "done", !.result = result, !.exc = exc,
              !.response = telegram_webhook_response(result, exc)]

SecretRejected_log_only(expected, secret) == FALSE

SecretRejected_when_unset(expected, secret) ==
    IF TruthyStr(expected) THEN secret # Get(expected) ELSE TRUE

\* the secret check of telegram_webhook
SecretRejected(expected, secret) == TruthyStr(expected) /\ secret # Get(expected)

\* media_markup, content_html and the call of create_wp_post
CallCreatePostOf(f) ==
    LET media_markup == _build_media_gallery(f.uploaded_media)
        content == IF media_markup # <<>>
                   THEN (IF f.content_html # <<>>
                         THEN f.content_html \o media_markup
                         ELSE media_markup)
                   ELSE f.content_html
    IN  [f EXCEPT !.pc = "create_post", !.content_html = content,
                  !.file_url = None, !.upload_call = None,
                  !.post_call = Some([title |-> f.title, content_html |-> content,
                                      media_ids |-> f.media_ids])]

CallCreatePost_shared_title(f) ==
    CallCreatePostOf([f EXCEPT !.title = h["r1"].title])

CallCreatePost_skip_empty(f) ==
    IF f.content_html = <<>> /\ f.media_ids = <<>>
    THEN Finish(f, "returned", "")
    ELSE CallCreatePostOf(f)

CallCreatePost(f) == CallCreatePostOf(f)

NextMedia_post_after_first(f) == CallCreatePost(f)

\* the for loop goes to the next descriptor or ends
NextMedia(f) ==
    IF f.i < Len(f.media_entries)
    THEN [f EXCEPT !.pc = "get_url", !.i = f.i + 1,
                   !.file_url = None, !.upload_call = None]
    ELSE CallCreatePost(f)

\* the loop body after _download_and_upload_media returned media_info
AfterMedia(f, media_info) ==
    IF ~Truthy(media_info) THEN NextMedia(f)
    ELSE IF ~HasAttrId(media_info) THEN Finish(f, "raised", "AttributeError")
    ELSE NextMedia([f EXCEPT
             !.media_ids = Append(@, media_info.v),
             !.uploaded_media = Append(@, [descriptor |-> f.media_entries[f.i],
                                           wp_media |-> media_info])])

SetStage(f, st) == [f EXCEPT !.stage[f.i] = st]

\* the frame after the await of a collaborator for descriptor i (0 when the
\* call is not for a descriptor); ok when it returned a value to go on with
Awaited(f, fn, i, ok) ==
    [f EXCEPT !.calls = Append(@, [fn |-> fn, i |-> i, ok |-> ok])]

HandleCreateResult_swallow(f, ret) == Finish(f, "returned", "")

\* await create_wp_post(...) is the last statement, outside any try
HandleCreateResult(f, ret) ==
    IF ret.raised THEN Finish(f, "raised", ret.exc) ELSE Finish(f, "returned", "")

\* telegram_webhook for a request whose path secret and body are drawn from
\* the given sets
WebhookRequest(r, secrets, updates) ==
    /\ h[r].pc = "idle"
    /\ \E secret \in secrets, update \in updates :
          LET f == [h[r] EXCEPT !.secret = secret, !.update = update]
          IN  h' = [h EXCEPT ![r] =
                      IF SecretRejected(settings.telegram_webhook_secret, secret)
                      THEN [f EXCEPT !.pc = "done", !.response = Forbidden]
                      ELSE [f EXCEPT !.pc = "handle", !.invoked = TRUE]]
    /\ UNCHANGED <<settings, posts, call>>

telegram_webhook(r) == WebhookRequest(r, PathSecrets, Updates)

handle_telegram_update(r) ==
    /\ h[r].pc = "handle"
    /\ LET update == h[r].update
           verdict == FilterVerdict(settings, update)
           msg == extract_message_entity(update)
           text == EffectiveText(update)
           f_msg == [h[r] EXCEPT !.verdict = verdict, !.msg = msg]
           f_text == [f_msg EXCEPT !.text = text,
                         !.media_entries = collect_supported_media(Get(msg))]
           f_tags == [f_text EXCEPT !.hashtags = EffectiveHashtags(text)]
           f_ok == [f_tags EXCEPT
                       !.title = build_title_from_text(text, DefaultMaxLength),
                       !.content_html = IF strip(text) # <<>>
                                        THEN text_to_html(text) ELSE <<>>,
                       !.stage = [k \in DOMAIN f_text.media_entries |-> "pending"]]
       IN  h' = [h EXCEPT ![r] =
                   CASE verdict \in {"no_message", "chat_type"} ->
                            Finish(f_msg, "returned", "")
                     [] verdict = "no_content" -> Finish(f_text, "returned", "")
                     [] verdict \in {"required_hashtag", "hashtag_allowlist",
                                     "hashtag_blocklist"} ->
                            Finish(f_tags, "returned", "")
                     [] OTHER ->
                            IF f_ok.media_entries = <<>>
                            THEN CallCreatePost(f_ok)
                            ELSE [f_ok EXCEPT !.pc = "get_url", !.i = 1]]
    /\ UNCHANGED <<settings, posts, call>>

get_file_direct_url(r) ==
    /\ h[r].pc = "get_url"
    /\ \E out \in UrlOutcomes :
          LET f == Awaited(h[r], "get_file_direct_url", h[r].i,
                           ~out.raised /\ out.url # None)
          IN  h' = [h EXCEPT ![r] =
                      IF ~out.raised /\ out.url # None
                      THEN [SetStage(f, "url-resolved") EXCEPT
                                !.pc = "download", !.file_url = out.url]
                      ELSE AfterMedia(SetStage(f, "failed"), PyNone)]
    /\ UNCHANGED <<settings, posts, call>>

download_file(r) ==
    /\ h[r].pc = "download"
    /\ \E raised \in BOOLEAN :
          LET media == h[r].media_entries[h[r].i]
              file_url == Get(h[r].file_url)
              f == Awaited(h[r], "download_file", h[r].i, ~raised)
          IN  h' = [h EXCEPT ![r] =
                      IF raised
                      THEN AfterMedia(SetStage(f, "failed"), PyNone)
                      ELSE [SetStage(f, "downloaded") EXCEPT
                                !.pc = "upload",
                                !.upload_call =
                                    Some([filename |-> UploadFilename(media, file_url),
                                          content_type |->
                                              UploadContentType(media, file_url)])]]
    /\ UNCHANGED <<settings, posts, call>>

upload_media_to_wp(r) ==
    /\ h[r].pc = "upload"
    /\ \E http \in HttpResults :
          LET ret == upload_media_to_wp_result(settings.wp_configured, http)
              media_info == IF ret.raised THEN PyNone ELSE ret.value
              called == [Awaited(h[r], "upload_media_to_wp", h[r].i,
                                 media_info # PyNone) EXCEPT
                            !.upload_ret = Some(ret)]
              f == IF media_info = PyNone
                   THEN SetStage(called, "failed")
                   ELSE [SetStage(called, "uploaded") EXCEPT
                             !.ok_ids = Append(@, http.id),
                             !.wp_accepted =
                                 Append(@, [descriptor |-> h[r].media_entries[h[r].i],
                                            wp_media |-> WPMediaResponse(
                                                http.id, http.source_url)])]
          IN  h' = [h EXCEPT ![r] = AfterMedia(f, media_info)]
    /\ UNCHANGED <<settings, posts, call>>

create_wp_post(r) ==
    /\ h[r].pc = "create_post"
    /\ \E http_kind \in {"ok", "http_error", "invalid"} :
          LET ret == create_wp_post_result(settings.wp_configured, http_kind)
              call_args == Get(h[r].post_call)
              f == [Awaited(h[r], "create_wp_post", 0, ~ret.raised) EXCEPT !.post_outcome =
                        IF ret.raised THEN "failed" ELSE "created"]
          IN  /\ h' = [h EXCEPT ![r] = HandleCreateResult(f, ret)]
              /\ posts' = IF ret.raised THEN posts
                          ELSE Append(posts,
                                      PostPayload(call_args.title,
                                                  call_args.content_html,
                                                  call_args.media_ids))
    /\ UNCHANGED <<settings, call>>

Init ==
    /\ settings \in SettingsSpace
    /\ h = [r \in Requests |-> IdleFrame]
    /\ posts = <<>>
    /\ call = NoCall

\* one webhook request at a time
Next ==
    \E r \in {"r1"} :
        \/ telegram_webhook(r)
        \/ handle_telegram_update(r)
        \/ get_file_direct_url(r)
        \/ download_file(r)
        \/ upload_media_to_wp(r)
        \/ create_wp_post(r)

Spec == Init /\ [][Next]_vars

\* ------------------------------------------ two updates handled concurrently
\* the update each request carries: different texts, different media
ConcurrentUpdates ==
    [r \in Requests |->
    IF r = "r1"
    THEN { [message |-> None,
            channel_post |-> Some(TgMessage("channel", Some(<<"x">>), None,
                <<Some(<<TgPhotoSize("p1", 1, 1)>>), None, None, None>>))] }
    ELSE { [message |-> None,
            channel_post |-> Some(TgMessage("channel", None, Some(TagA \o <<" ", "y">>),
                <<None, Some(TgFileBase("v1", Some(<<"clip.mp4">>), None)),
                  None, None>>))],
           [message |-> None,
            channel_post |-> Some(TgMessage("channel", Some(TagB), None, NoMedia))] }]

telegram_webhook_concurrent(r) ==
    WebhookRequest(r, {<<"s">>}, ConcurrentUpdates[r])

ConcurrentInit ==
    /\ settings \in { st \in SettingsSpace :
                         /\ st.telegram_webhook_secret = Some(<<"s">>)
                         /\ st.chat_type_allowlist = <<"channel">>
                         /\ st.required_hashtag = None
                         /\ st.hashtag_allowlist = None
                         /\ st.hashtag_blocklist = None }
    /\ h = [r \in Requests |-> IdleFrame]
    /\ posts = <<>>
    /\ call = NoCall

\* the event loop runs one handler up to its next await, then any handler
ConcurrentNext ==
    \E r \in Requests :
        \/ telegram_webhook_concurrent(r)
        \/ handle_telegram_update(r)
        \/ get_file_direct_url(r)
        \/ download_file(r)
        \/ upload_media_to_wp(r)
        \/ create_wp_post(r)

ConcurrentSpec == ConcurrentInit /\ [][ConcurrentNext]_vars

\* ------------------------------------------------ the parser specification
\* The functions of message_parser, and the webhook administration calls of
\* telegram_api, applied once to enumerated inputs.
Alphabet == {"#", "a", ".", "(", " ", "\n"}

RECURSIVE SeqsUpTo(_, _)
\* all sequences over S of length at most n
SeqsUpTo(S, n) ==
    IF n = 0 THEN {<<>>}
    ELSE LET shorter == SeqsUpTo(S, n - 1)
         IN  shorter \cup { Append(q, x) : q \in shorter, x \in S }

ParserTexts == SeqsUpTo(Alphabet, MaxTextLen)

\* sample tokens: hashtags in two letter cases, with trailing and leading
\* punctuation, bare '#' runs and a plain word
Tokens ==
    { <<"#", "a">>, <<"#", "A">>, <<"#", "a", ".">>, <<"#", "b", ",", "(">>,
      <<"(", "#", "a">>, <<"#", "#">>, <<"#">>, <<"w">> }

\* texts of up to MaxTokens sample tokens separated by single spaces
TokenTexts == { Join(ts, <<" ">>) : ts \in SeqsUpTo(Tokens, MaxTokens) }

\* texts with paragraphs, line breaks and a character html.escape would change
HtmlTexts == SeqsUpTo({"a", "&", "\n"}, MaxHtmlLen)

ShortTexts == {None, Some(<<>>), Some(<<"a">>), Some(<<" ">>), Some(TagA)}

ParserMessages ==
    { TgMessage(ct, t, c, NoMedia) :
        ct \in {"channel"}, t \in ShortTexts, c \in ShortTexts }

ParserUpdates ==
    [message : {None} \cup { Some(m) : m \in ParserMessages },
     channel_post : {None} \cup { Some(m) : m \in ParserMessages }]

PhotoSizes ==
    { TgPhotoSize(id, w, ht) : id \in {"p1", "p2"}, w \in 1..MaxDim, ht \in 1..MaxDim }

PhotoMessages ==
    { TgMessage("channel", None, None, <<ph, None, None, None>>) :
        ph \in {None} \cup { Some(l) : l \in SeqsUpTo(PhotoSizes, MaxPhotos) } }

\* photo variants of the messages collect_supported_media is applied to
MediaPhotoSizes ==
    { TgPhotoSize(id, w, 1) : id \in {"p1", "p2"}, w \in 1..2 }

\* the video, animation or document field: absent, or a file whose name tells
\* the field it came from and whose id may be shared with another field
MediaFiles(kind) ==
    {None} \cup { Some(TgFileBase(id, Some(<<kind>>), None)) : id \in {"p1", "p2", "v1"} }

CollectMessages ==
    { TgMessage("channel", None, None, <<ph, v, a, d>>) :
        ph \in {None} \cup { Some(l) : l \in SeqsUpTo(MediaPhotoSizes, MaxPhotos) },
        v \in MediaFiles("v"), a \in MediaFiles("a"), d \in MediaFiles("d") }

\* each action applies one function once to one enumerated argument
call_extract_message_entity ==
    /\ call.fn = "none"
    /\ \E update \in ParserUpdates :
          call' = [fn |-> "extract_message_entity", arg |-> update,
                   ret |-> extract_message_entity(update)]
    /\ UNCHANGED <<settings, h, posts>>

call_extract_message_text ==
    /\ call.fn = "none"
    /\ \E update \in ParserUpdates :
          call' = [fn |-> "extract_message_text", arg |-> update,
                   ret |-> extract_message_text(update)]
    /\ UNCHANGED <<settings, h, posts>>

call_find_photo_with_max_size ==
    /\ call.fn = "none"
    /\ \E msg \in PhotoMessages :
          call' = [fn |-> "find_photo_with_max_size", arg |-> msg,
                   ret |-> find_photo_with_max_size(msg)]
    /\ UNCHANGED <<settings, h, posts>>

call_collect_supported_media ==
    /\ call.fn = "none"
    /\ \E msg \in CollectMessages :
          call' = [fn |-> "collect_supported_media", arg |-> msg,
                   ret |-> collect_supported_media(msg)]
    /\ UNCHANGED <<settings, h, posts>>

call_extract_hashtags ==
    /\ call.fn = "none"
    /\ \E text \in ParserTexts \cup TokenTexts :
          call' = [fn |-> "extract_hashtags", arg |-> text,
                   ret |-> extract_hashtags(text)]
    /\ UNCHANGED <<settings, h, posts>>

call_build_title_from_text ==
    /\ call.fn = "none"
    /\ \E text \in ParserTexts \cup TokenTexts, max_length \in {2, DefaultMaxLength} :
          call' = [fn |-> "build_title_from_text", arg |-> <<text, max_length>>,
                   ret |-> build_title_from_text(text, max_length)]
    /\ UNCHANGED <<settings, h, posts>>

call_text_to_html ==
    /\ call.fn = "none"
    /\ \E text \in ParserTexts \cup HtmlTexts :
          call' = [fn |-> "text_to_html", arg |-> text,
                   ret |-> text_to_html(text)]
    /\ UNCHANGED <<settings, h, posts>>

\* answers of setWebhook and getWebhookInfo
WebhookUrl == <<"h", "/", "s">>
ApiAnswers ==
    {ApiStatusError, ApiEnvelope(FALSE, Some("Unauthorized"), None)}
    \cup { ApiEnvelope(TRUE, None,
                       Some([url |-> url, pending_update_count |-> n])) :
             url \in {Some(<<>>), Some(WebhookUrl)}, n \in {0, 3} }

call_set_webhook ==
    /\ call.fn = "none"
    /\ \E bot_token_set \in BOOLEAN, public_base_url_set \in BOOLEAN,
          webhook_secret \in {None, Some(<<>>), Some(<<"s">>)},
          answer \in ApiAnswers :
          call' = [fn |-> "set_webhook",
                   arg |-> [bot_token_set |-> bot_token_set,
                            public_base_url_set |-> public_base_url_set,
                            webhook_secret |-> webhook_secret,
                            answer |-> answer],
                   ret |-> set_webhook_result(bot_token_set, public_base_url_set,
                                              webhook_secret, answer)]
    /\ UNCHANGED <<settings, h, posts>>

call_get_webhook_info ==
    /\ call.fn = "none"
    /\ \E bot_token_set \in BOOLEAN, answer \in ApiAnswers :
          call' = [fn |-> "get_webhook_info",
                   arg |-> [bot_token_set |-> bot_token_set, answer |-> answer],
                   ret |-> get_webhook_info_result(bot_token_set, answer)]
    /\ UNCHANGED <<settings, h, posts>>

DefaultSettings ==
    [telegram_webhook_secret |-> None, chat_type_allowlist |-> <<"channel">>,
     required_hashtag |-> None, hashtag_allowlist |-> None,
     hashtag_blocklist |-> None, wp_configured |-> FALSE]

ParserInit ==
    /\ settings = DefaultSettings
    /\ h = [r \in Requests |-> IdleFrame]
    /\ posts = <<>>
    /\ call = NoCall

ParserNext ==
    \/ call_extract_message_entity
    \/ call_extract_message_text
    \/ call_find_photo_with_max_size
    \/ call_collect_supported_media
    \/ call_extract_hashtags
    \/ call_build_title_from_text
    \/ call_text_to_html
    \/ call_set_webhook
    \/ call_get_webhook_info

ParserSpec == ParserInit /\ [][ParserNext]_vars

\* ------------------------------------------------------------------ claims
Started(f) == f.pc # "idle"
Accepted(f) == f.verdict = "accepted"
SharesTag(tags, hashtags) == \E k \in DOMAIN tags : InSeq(tags[k], hashtags)

\* C1: create_wp_post is called only if the update carries a message, the
\* chat-type allowlist is empty or holds the message's chat type, the trimmed
\* text is non-empty or a media descriptor was collected, the required hashtag
\* is unset or among the extracted hashtags, the hashtag allowlist is unset or
\* empty or shares a tag with them, and none of them is blocklisted.
C1_PostOnlyIfFiltersPass ==
    \A r \in Requests :
        h[r].post_call # None =>
            /\ h[r].update.message # None \/ h[r].update.channel_post # None
            /\ h[r].msg # None
            /\ \/ settings.chat_type_allowlist = <<>>
               \/ InSeq(Get(h[r].msg).chat.type, settings.chat_type_allowlist)
            /\ strip(h[r].text) # <<>> \/ h[r].media_entries # <<>>
            /\ \/ settings.required_hashtag \in {None, Some(<<>>)}
               \/ InSeq(Get(settings.required_hashtag), h[r].hashtags)
            /\ \/ settings.hashtag_allowlist \in {None, Some(<<>>)}
               \/ SharesTag(Get(settings.hashtag_allowlist), h[r].hashtags)
            /\ \/ settings.hashtag_blocklist = None
               \/ ~SharesTag(Get(settings.hashtag_blocklist), h[r].hashtags)

\* a post is requested under a configuration that sets every filter
C1_Witness ==
    \E r \in Requests :
        /\ h[r].post_call # None
        /\ settings.chat_type_allowlist # <<>>
        /\ TruthyStr(settings.required_hashtag)
        /\ settings.hashtag_allowlist # None
        /\ settings.hashtag_blocklist # None

\* the hashtags of the update's effective message text
UpdateHashtags(update) == EffectiveHashtags(EffectiveText(update))

\* C2: blocklist wins over allowlist: when the extracted hashtags of a handled
\* message hold a blocklisted tag, no post is created, even if they also hold
\* an allowlisted tag and the required hashtag.
C2_BlocklistWins ==
    \A r \in Requests :
        ( /\ Started(h[r])
          /\ settings.hashtag_blocklist # None
          /\ SharesTag(Get(settings.hashtag_blocklist), UpdateHashtags(h[r].update)) )
        => /\ h[r].post_call = None
           /\ h[r].post_outcome = "none"
           /\ h[r].pc \in {"handle", "done"}

\* a message with the required, an allowlisted and a blocklisted hashtag was
\* handled and rejected by the blocklist
C2_Witness ==
    \E r \in Requests :
        /\ h[r].pc = "done"
        /\ h[r].verdict = "hashtag_blocklist"
        /\ TruthyStr(settings.required_hashtag)
        /\ InSeq(Get(settings.required_hashtag), h[r].hashtags)
        /\ settings.hashtag_allowlist # None
        /\ SharesTag(Get(settings.hashtag_allowlist), h[r].hashtags)

\* C3: every update that passes all filters has create_wp_post called for it,
\* whatever happens to its media items.
C3_AcceptedUpdateIsPosted ==
    \A r \in Requests :
        (h[r].pc = "done" /\ Accepted(h[r])) => h[r].post_call # None

CorrectSecret(f) ==
    /\ Started(f)
    /\ TruthyStr(settings.telegram_webhook_secret)
    /\ f.secret = Get(settings.telegram_webhook_secret)

\* C4: a request with the correct secret is answered with HTTP 200 whatever
\* handle_telegram_update does: ok true when it returns, ok false with the
\* error message when it raises.
C4_CorrectSecretAlways200 ==
    \A r \in Requests :
        (CorrectSecret(h[r]) /\ h[r].pc = "done") =>
            /\ h[r].invoked
            /\ h[r].response.status = 200
            /\ \/ h[r].result = "returned" /\ h[r].response.ok
                  /\ h[r].response.error = ""
               \/ h[r].result = "raised" /\ ~h[r].response.ok
                  /\ h[r].response.error = h[r].exc /\ h[r].exc # ""

\* the handler raised for a request with the correct secret
C4_Witness ==
    \E r \in Requests :
        /\ CorrectSecret(h[r])
        /\ h[r].pc = "done"
        /\ h[r].result = "raised"
        /\ h[r].post_outcome = "failed"

WrongSecret(f) ==
    /\ Started(f)
    /\ TruthyStr(settings.telegram_webhook_secret)
    /\ f.secret # Get(settings.telegram_webhook_secret)

\* C5: with a secret configured, a request with another path secret gets 403
\* Forbidden and handle_telegram_update is never invoked for it: no filter is
\* evaluated, no collaborator is called, no post is made.
C5_WrongSecretForbidden ==
    \A r \in Requests :
        WrongSecret(h[r]) =>
            /\ h[r].pc = "done"
            /\ h[r].response = Forbidden
            /\ ~h[r].invoked
            /\ h[r].verdict = "none"
            /\ h[r].result = "none"
            /\ h[r].stage = <<>> /\ h[r].i = 0
            /\ h[r].post_call = None
            /\ posts = <<>>

\* a request with a wrong secret was answered
C5_Witness ==
    \E r \in Requests :
        /\ WrongSecret(h[r])
        /\ h[r].response.status = 403
        /\ h[r].update.channel_post # None

\* C6: a failure of create_wp_post leaves handle_telegram_update as an
\* exception: the handler ends raised with that error and makes no post.
C6_PostFailurePropagates ==
    \A r \in Requests :
        h[r].post_outcome = "failed" =>
            /\ h[r].pc = "done"
            /\ h[r].result = "raised"
            /\ h[r].exc \in {"RuntimeError", "HTTPStatusError", "ValidationError"}
            /\ posts = <<>>

\* create_wp_post failed on an HTTP error status
C6_Witness ==
    \E r \in Requests :
        /\ h[r].post_outcome = "failed"
        /\ h[r].exc = "HTTPStatusError"
        /\ h[r].result = "raised"

\* C7: the media_ids handed to create_wp_post are exactly the attachment ids
\* the successful uploads returned, in descriptor order.
C7_MediaIdsAreUploadedIds ==
    \A r \in Requests :
        h[r].post_call # None => Get(h[r].post_call).media_ids = h[r].ok_ids

MessageFileIds(msg) ==
    (IF msg.photo = None THEN {}
     ELSE { Get(msg.photo)[k].file_id : k \in DOMAIN Get(msg.photo) })
    \cup (IF msg.video = None THEN {} ELSE {Get(msg.video).file_id})
    \cup (IF msg.animation = None THEN {} ELSE {Get(msg.animation).file_id})
    \cup (IF msg.document = None THEN {} ELSE {Get(msg.document).file_id})

\* C8: the effective message is the channel-originated one when both slots are
\* set or only it is set, the primary one when only that is set, and absent
\* when neither is; chat type, text and media of the pipeline come from it.
C8_EffectiveMessage ==
    \A r \in Requests :
        h[r].verdict # "none" =>
            LET u == h[r].update
                f == h[r]
            IN  /\ (u.channel_post # None /\ u.message # None) => f.msg = u.channel_post
                /\ (u.channel_post # None /\ u.message = None) => f.msg = u.channel_post
                /\ (u.channel_post = None /\ u.message # None) => f.msg = u.message
                /\ (u.channel_post = None /\ u.message = None) =>
                       f.msg = None /\ f.verdict = "no_message"
                /\ f.verdict = "chat_type" =>
                       ~InSeq(Get(f.msg).chat.type, settings.chat_type_allowlist)
                /\ f.verdict \notin {"no_message", "chat_type"} =>
                       /\ \/ settings.chat_type_allowlist = <<>>
                          \/ InSeq(Get(f.msg).chat.type, settings.chat_type_allowlist)
                       /\ \/ f.text = <<>>
                          \/ Some(f.text) \in {Get(f.msg).text, Get(f.msg).caption}
                       /\ \A k \in DOMAIN f.media_entries :
                              f.media_entries[k].file_id \in MessageFileIds(Get(f.msg))

\* an update with both slots set was accepted on its channel-originated message
C8_Witness ==
    \E r \in Requests :
        /\ h[r].update.channel_post # None
        /\ h[r].update.message # None
        /\ h[r].update.message # h[r].update.channel_post
        /\ Accepted(h[r])
        /\ h[r].msg = h[r].update.channel_post
        /\ h[r].media_entries # <<>>

\* the effective message of the argument of a parser call on an update
ArgMessage == IF call.arg.channel_post # None THEN call.arg.channel_post
              ELSE call.arg.message

\* C9 as stated: the text whenever the text field is present, even when it is
\* empty; the caption only when the text field is absent.
C9_TextWheneverPresent ==
    call.fn = "extract_message_text" =>
        IF ArgMessage = None THEN call.ret = None
        ELSE IF Get(ArgMessage).text # None THEN call.ret = Get(ArgMessage).text
        ELSE call.ret = Get(ArgMessage).caption

\* C9 amended: the text when the text field is present and non-empty; else
\* the caption, absent or not; absent when there is no message.
C9_TextUnlessEmpty ==
    call.fn = "extract_message_text" =>
        IF ArgMessage = None THEN call.ret = None
        ELSE IF Get(ArgMessage).text \notin {None, Some(<<>>)}
             THEN call.ret = Get(ArgMessage).text
             ELSE call.ret = Get(ArgMessage).caption

\* an empty text field falls through to a caption
C9_Witness ==
    /\ call.fn = "extract_message_text"
    /\ ArgMessage # None
    /\ Get(ArgMessage).text = Some(<<>>)
    /\ Get(ArgMessage).caption = Some(<<"a">>)
    /\ call.ret = Some(<<"a">>)

\* C10: for a non-empty photo list the result is an element of maximal
\* width*height, the first such element of the list; for an absent or empty
\* list it is absent.
C10_FirstLargestPhoto ==
    call.fn = "find_photo_with_max_size" =>
        IF call.arg.photo = None \/ Get(call.arg.photo) = <<>>
        THEN call.ret = None
        ELSE LET l == Get(call.arg.photo)
             IN  \E k \in DOMAIN l :
                    /\ call.ret = Some(l[k])
                    /\ \A j \in DOMAIN l :
                           l[j].width * l[j].height <= l[k].width * l[k].height
                    /\ \A j \in 1..(k - 1) :
                           l[j].width * l[j].height < l[k].width * l[k].height

\* a list whose greatest area is shared by two different variants
C10_Witness ==
    /\ call.fn = "find_photo_with_max_size"
    /\ call.arg.photo # None
    /\ Len(Get(call.arg.photo)) = 3
    /\ LET l == Get(call.arg.photo)
       IN  /\ Area(l[1]) < Area(l[2])
           /\ Area(l[2]) = Area(l[3])
           /\ l[2] # l[3]
           /\ call.ret = Some(l[2])

\* position of a kind in the order photo, video, animation, document
KindOrder(media_type) ==
    CASE media_type = "photo" -> 1
      [] media_type = "video" -> 2
      [] media_type = "animation" -> 3
      [] media_type = "document" -> 4

\* the field of a message a kind is read from, None when absent or empty
FieldOfKind(msg, media_type) ==
    CASE media_type = "photo" ->
             IF msg.photo = None \/ Get(msg.photo) = <<>> THEN None ELSE msg.photo
      [] media_type = "video" -> msg.video
      [] media_type = "animation" -> msg.animation
      [] media_type = "document" -> msg.document

\* C11: collect_supported_media returns a list (it never fails) with at most
\* one descriptor per kind, kinds in the order photo, video, animation,
\* document; a descriptor exists only for a field that is present; the photo
\* descriptor carries the file id of a photo variant of greatest area.
C11_OneDescriptorPerKindInOrder ==
    call.fn = "collect_supported_media" =>
        LET msg == call.arg
            ret == call.ret
        IN  /\ Len(ret) <= 4
            /\ \A i \in DOMAIN ret :
                   /\ ret[i].media_type \in {"photo", "video", "animation", "document"}
                   /\ FieldOfKind(msg, ret[i].media_type) # None
            /\ \A i, j \in DOMAIN ret :
                   i < j => KindOrder(ret[i].media_type) < KindOrder(ret[j].media_type)
            /\ FieldOfKind(msg, "photo") # None =>
                   /\ ret # <<>>
                   /\ ret[1].media_type = "photo"
                   /\ \E k \in DOMAIN Get(msg.photo) :
                          /\ Get(msg.photo)[k].file_id = ret[1].file_id
                          /\ \A j \in DOMAIN Get(msg.photo) :
                                 Area(Get(msg.photo)[j]) <= Area(Get(msg.photo)[k])

\* a message whose largest photo variant is not its first, with a video and a
\* document of other ids and no animation
C11_Witness ==
    /\ call.fn = "collect_supported_media"
    /\ call.arg.photo # None
    /\ Len(Get(call.arg.photo)) = 2
    /\ Area(Get(call.arg.photo)[1]) < Area(Get(call.arg.photo)[2])
    /\ Get(call.arg.photo)[1].file_id # Get(call.arg.photo)[2].file_id
    /\ call.arg.animation = None
    /\ Len(call.ret) = 3
    /\ call.ret[1].file_id = Get(call.arg.photo)[2].file_id
    /\ call.ret[2].media_type = "video"
    /\ call.ret[3].media_type = "document"

\* file id of the descriptor a kind would give, None when its field is absent
CandidateId(msg, media_type) ==
    IF FieldOfKind(msg, media_type) = None THEN None
    ELSE IF media_type = "photo"
         THEN Some(Get(find_photo_with_max_size(msg)).file_id)
         ELSE Some(Get(FieldOfKind(msg, media_type)).file_id)

\* C12: the file ids of the returned descriptors are pairwise distinct; every
\* file id a present field offers is returned once, under the first kind, in
\* the order photo, video, animation, document, that offers it.
C12_FileIdsDistinctFirstKindWins ==
    call.fn = "collect_supported_media" =>
        LET msg == call.arg
            ret == call.ret
            Kinds == {"photo", "video", "animation", "document"}
        IN  /\ \A i, j \in DOMAIN ret : i # j => ret[i].file_id # ret[j].file_id
            /\ \A i \in DOMAIN ret :
                   /\ CandidateId(msg, ret[i].media_type) = Some(ret[i].file_id)
                   /\ \A kd \in Kinds :
                          CandidateId(msg, kd) = Some(ret[i].file_id) =>
                              KindOrder(ret[i].media_type) <= KindOrder(kd)
            /\ \A kd \in Kinds :
                   CandidateId(msg, kd) # None =>
                       \E i \in DOMAIN ret : Some(ret[i].file_id) = CandidateId(msg, kd)

\* the photo and the document share a file id, and so do the video and the
\* animation: the photo and the video survive
C12_Witness ==
    /\ call.fn = "collect_supported_media"
    /\ CandidateId(call.arg, "photo") # None
    /\ CandidateId(call.arg, "photo") = CandidateId(call.arg, "document")
    /\ CandidateId(call.arg, "video") # None
    /\ CandidateId(call.arg, "video") = CandidateId(call.arg, "animation")
    /\ CandidateId(call.arg, "photo") # CandidateId(call.arg, "video")
    /\ Len(call.ret) = 2
    /\ call.ret[1].media_type = "photo"
    /\ call.ret[2].media_type = "video"
    /\ call.ret[2].file_name = Some(<<"v">>)

\* a token without the punctuation attached to its end
StripTrailing(tok) == rstrip(tok, RStripSecond)

\* a token that gives a hashtag
IsTagToken(tok) == startswith(tok, "#") /\ Len(StripTrailing(tok)) >= 2

\* index of the first token of toks that gives the tag
FirstTokenOf(tag, toks) ==
    CHOOSE k \in DOMAIN toks :
        /\ IsTagToken(toks[k]) /\ StripTrailing(toks[k]) = tag
        /\ \A j \in 1..(k - 1) : ~(IsTagToken(toks[j]) /\ StripTrailing(toks[j]) = tag)

\* C13: extract_hashtags returns every hashtag of the text exactly once, in
\* the order of first occurrence; tokens that differ only in trailing
\* punctuation give the same tag, tokens that differ in letter case give
\* different tags.
C13_DistinctTagsInFirstOccurrenceOrder ==
    call.fn = "extract_hashtags" =>
        LET toks == split(call.arg)
            ret == call.ret
        IN  /\ \A i, j \in DOMAIN ret : i # j => ret[i] # ret[j]
            /\ { ret[i] : i \in DOMAIN ret } =
               { StripTrailing(toks[k]) : k \in { n \in DOMAIN toks : IsTagToken(toks[n]) } }
            /\ \A i, j \in DOMAIN ret :
                   i < j => FirstTokenOf(ret[i], toks) < FirstTokenOf(ret[j], toks)

\* '#a.' then '#A' then '#a': the third token repeats the first, the second
\* differs in case
C13_Witness ==
    /\ call.fn = "extract_hashtags"
    /\ call.arg = <<"#", "a", ".", " ", "#", "A", " ", "#", "a">>
    /\ call.ret = << <<"#", "a">>, <<"#", "A">> >>

\* C14: every returned tag starts with '#', has a character other than '#',
\* and does not end with one of . , ! ? : ; ) ] } ( [ {
C14_TagsWellFormed ==
    call.fn = "extract_hashtags" =>
        \A i \in DOMAIN call.ret :
            LET tag == call.ret[i]
            IN  /\ tag # <<>>
                /\ tag[1] = "#"
                /\ \E k \in DOMAIN tag : tag[k] # "#"
                /\ tag[Len(tag)] \notin
                       {".", ",", "!", "?", ":", ";", ")", "]", "}", "(", "[", "{"}

IsBlank(s) == \A i \in DOMAIN s : s[i] \in WS

\* C15: the title is made from the first non-blank line, trimmed: its words
\* after the leading run of words starting with '#', joined by single spaces,
\* or the whole trimmed line when every word starts with '#'; cut to the first
\* max_length characters; '(no title)' when every line is blank.
C15_TitleFromFirstNonBlankLine ==
    call.fn = "build_title_from_text" =>
        LET text == call.arg[1]
            max_length == call.arg[2]
            lines == SplitChar(text, {"\n"})
        IN  IF \A k \in DOMAIN lines : IsBlank(lines[k]) THEN call.ret = NoTitle
            ELSE LET first == CHOOSE k \in DOMAIN lines :
                                 /\ ~IsBlank(lines[k])
                                 /\ \A j \in 1..(k - 1) : IsBlank(lines[j])
                     line == strip(lines[first])
                     words == split(line)
                     n == CHOOSE n \in 0..Len(words) :
                             /\ \A j \in 1..n : words[j][1] = "#"
                             /\ n < Len(words) => words[n + 1][1] # "#"
                     full == IF n < Len(words)
                             THEN Join(SubSeq(words, n + 1, Len(words)), <<" ">>)
                             ELSE line
                 IN  call.ret = SubSeq(full, 1, IF Len(full) < max_length
                                                THEN Len(full) ELSE max_length)

\* '#a w #A': the leading hashtag is dropped, the later one is kept
C15_Witness ==
    /\ call.fn = "build_title_from_text"
    /\ call.arg[1] = <<"#", "a", " ", "w", " ", "#", "A">>
    /\ call.arg[2] = DefaultMaxLength
    /\ call.ret = <<"w", " ", "#", "A">>

RECURSIVE HtmlBody(_)
\* a trimmed text with every pair of newlines, taken from the left, turned
\* into a paragraph boundary and every other newline into a line break
HtmlBody(s) ==
    IF s = <<>> THEN <<>>
    ELSE IF Len(s) >= 2 /\ s[1] = "\n" /\ s[2] = "\n"
         THEN <<"</p>", "<p>">> \o HtmlBody(SubSeq(s, 3, Len(s)))
         ELSE IF s[1] = "\n" THEN <<"<br>">> \o HtmlBody(Tail(s))
              ELSE <<s[1]>> \o HtmlBody(Tail(s))

RECURSIVE Boundaries(_)
\* number of double-newline boundaries of a text
Boundaries(s) ==
    IF Len(s) < 2 THEN 0
    ELSE IF s[1] = "\n" /\ s[2] = "\n" THEN 1 + Boundaries(SubSeq(s, 3, Len(s)))
         ELSE Boundaries(Tail(s))

CountOf(x, s) == Cardinality({ i \in DOMAIN s : s[i] = x })

\* C16: text_to_html gives '<p></p>' for a text that is empty after trimming;
\* otherwise the trimmed text inside <p>...</p> with each double newline
\* replaced by '</p><p>' and each other newline by '<br>', every other
\* character unchanged; the number of <p> blocks is the number of
\* double-newline boundaries plus one.
C16_ParagraphsAndLineBreaks ==
    call.fn = "text_to_html" =>
        LET stripped == strip(call.arg)
        IN  /\ stripped = <<>> => call.ret = <<"<p>", "</p>">>
            /\ stripped # <<>> =>
                   /\ call.ret = <<"<p>">> \o HtmlBody(stripped) \o <<"</p>">>
                   /\ CountOf("<p>", call.ret) = Boundaries(stripped) + 1
                   /\ CountOf("</p>", call.ret) = Boundaries(stripped) + 1
                   /\ CountOf("\n", call.ret) = 0

\* two paragraphs, the first with a line break and an unescaped '&'
C16_Witness ==
    /\ call.fn = "text_to_html"
    /\ call.arg = <<"&", "\n", "a", "\n", "\n", "a">>
    /\ call.ret = <<"<p>", "&", "<br>", "a", "</p>", "<p>", "a", "</p>">>

\* C17: upload_media_to_wp never raises; a failed upload returns None.
C17_UploadNeverRaises ==
    \A r \in Requests :
        h[r].upload_ret # None => ~Get(h[r].upload_ret).raised

\* C18: a successful upload returns an object with the id and the source URL
\* the platform answered, and the ids in media_ids are the ids the platform
\* answered for the accepted uploads, in order.
C18_UploadReturnsIdAndSourceUrl ==
    \A r \in Requests :
        /\ ( /\ h[r].upload_ret # None
             /\ ~Get(h[r].upload_ret).raised
             /\ Get(h[r].upload_ret).value # PyNone )
           => /\ HasAttrId(Get(h[r].upload_ret).value)
              /\ h[r].wp_accepted # <<>>
              /\ Get(h[r].upload_ret).value =
                     h[r].wp_accepted[Len(h[r].wp_accepted)].wp_media
        /\ h[r].media_ids =
               [k \in DOMAIN h[r].wp_accepted |-> h[r].wp_accepted[k].wp_media.v]

\* C19: the content handed to create_wp_post is, for a blank text with some
\* media markup, the markup of the accepted uploads alone, and for a
\* non-blank text text_to_html(text) followed by that markup; an update
\* handled to its end with an upload accepted under a public URL has had its
\* content handed to create_wp_post.
C19_ContentIsTextThenMediaMarkup ==
    \A r \in Requests :
        LET markup == _build_media_gallery(h[r].wp_accepted)
        IN  /\ h[r].post_call # None =>
                   LET content == Get(h[r].post_call).content_html
                   IN  IF strip(h[r].text) = <<>>
                       THEN markup # <<>> => content = markup
                       ELSE content = text_to_html(h[r].text) \o markup
            /\ (h[r].pc = "done" /\ markup # <<>>) => h[r].post_call # None

\* the descriptor has an entry in uploaded_media
Contributed(f, i) ==
    \E k \in DOMAIN f.uploaded_media :
        f.uploaded_media[k].descriptor = f.media_entries[i]

\* C20: a failed descriptor has no entry in media_ids or uploaded_media, the
\* loop goes on after it, every later descriptor has been attempted when the
\* loop is over, and a later descriptor whose upload was accepted has its
\* entry.
C20_FailedItemSkippedPipelineContinues ==
    \A r \in Requests :
        \A i \in DOMAIN h[r].stage :
            h[r].stage[i] = "failed" =>
                /\ ~Contributed(h[r], i)
                /\ Len(h[r].media_ids) = Len(h[r].uploaded_media)
                /\ h[r].i > i \/ h[r].pc \in {"create_post", "done"}
                /\ h[r].pc \in {"create_post", "done"} =>
                       \A j \in DOMAIN h[r].stage : j > i => h[r].stage[j] # "pending"
                /\ \A j \in DOMAIN h[r].stage :
                       (j > i /\ h[r].stage[j] = "uploaded") => Contributed(h[r], j)

\* the collaborator calls made for descriptor i, in the order they were made
CallsFor(f, i) ==
    LET ForDescriptor(c) == c.i = i
    IN  SelectSeq(f.calls, ForDescriptor)

PipelineSteps == <<"get_file_direct_url", "download_file", "upload_media_to_wp">>

\* C21: the calls for a descriptor are a prefix of get_file_direct_url,
\* download_file, upload_media_to_wp, each made once and only after the one
\* before it gave its value; the descriptor's state is the one that prefix
\* and its last outcome give; when the handler has ended every descriptor is
\* uploaded or failed.
C21_DescriptorStateMachine ==
    \A r \in Requests :
        \A i \in DOMAIN h[r].stage :
            LET cs == CallsFor(h[r], i)
            IN  /\ Len(cs) <= 3
                /\ \A k \in DOMAIN cs :
                       /\ cs[k].fn = PipelineSteps[k]
                       /\ k > 1 => cs[k - 1].ok
                /\ h[r].stage[i] =
                       IF cs = <<>> THEN "pending"
                       ELSE IF ~cs[Len(cs)].ok THEN "failed"
                       ELSE <<"url-resolved", "downloaded", "uploaded">>[Len(cs)]
                /\ h[r].pc = "done" => h[r].stage[i] \in {"uploaded", "failed"}

Terminal(st) == st \in {"uploaded", "failed"}

\* C22: the calls for the descriptors are made in list order, a call for a
\* descriptor is made only when every descriptor before it is uploaded or
\* failed, and create_wp_post is requested and called only when every
\* descriptor is, as the last call.
C22_OneDescriptorAtATime ==
    \A r \in Requests :
        LET f == h[r]
        IN  /\ \A a, b \in DOMAIN f.calls :
                   (a < b /\ f.calls[b].i > 0) =>
                       (f.calls[a].i > 0 /\ f.calls[a].i <= f.calls[b].i)
            /\ \A j \in DOMAIN f.stage :
                   f.stage[j] # "pending" =>
                       \A k \in 1..(j - 1) : Terminal(f.stage[k])
            /\ \A a \in DOMAIN f.calls :
                   f.calls[a].fn = "create_wp_post" =>
                       a = Len(f.calls) /\ f.post_call # None
            /\ f.post_call # None =>
                   \A j \in DOMAIN f.stage : Terminal(f.stage[j])

\* create_wp_post was called after two descriptors, the first uploaded and the
\* second failed at its download
C22_Witness ==
    \E r \in Requests :
        /\ h[r].stage = <<"uploaded", "failed">>
        /\ Len(h[r].calls) = 6
        /\ h[r].calls[5].fn = "download_file"
        /\ h[r].calls[6].fn = "create_wp_post"

\* the first elements of the markup blocks of _build_media_gallery
MarkupOpenings ==
    { "<figure class=\"telegram-media telegram-photo\"><img src=\"",
      "<figure class=\"telegram-media telegram-",
      "<p class=\"telegram-media telegram-link\"><a href=\"" }

MarkupBlocks(content) ==
    Cardinality({ k \in DOMAIN content : content[k] \in MarkupOpenings })

\* the ids the platform gave for the accepted uploads, in order
AcceptedIds(f) == [k \in DOMAIN f.wp_accepted |-> f.wp_accepted[k].wp_media.v]

\* C23: once the loop is over, media_ids holds the id of every accepted
\* upload, with or without a source URL, the content has one markup block for
\* each accepted upload that has a source URL and no other, and so no more
\* blocks than media_ids has ids.
C23_MarkupOnlyForItemsWithSourceUrl ==
    \A r \in Requests :
        h[r].pc \in {"create_post", "done"} =>
            /\ h[r].media_ids = AcceptedIds(h[r])
            /\ MarkupBlocks(h[r].content_html) =
                   Cardinality({ k \in DOMAIN h[r].wp_accepted :
                                    h[r].wp_accepted[k].wp_media.source_url # None })
            /\ MarkupBlocks(h[r].content_html) <= Len(h[r].media_ids)

\* C24: the post request carries as featured_media the id of the first
\* accepted upload, and no featured_media when no upload was accepted; an
\* update handled to its end with an accepted upload has had its post
\* requested.
C24_FeaturedMediaIsFirstUploaded ==
    \A r \in Requests :
        /\ h[r].post_call # None =>
               PostPayload(Get(h[r].post_call).title,
                           Get(h[r].post_call).content_html,
                           Get(h[r].post_call).media_ids).featured_media =
                   IF h[r].wp_accepted = <<>> THEN None
                   ELSE Some(AcceptedIds(h[r])[1])
        /\ (h[r].pc = "done" /\ h[r].wp_accepted # <<>>) => h[r].post_call # None

\* the post request an update gives by itself: title and body of its own
\* text, markup and ids of the uploads entered in its own frame
OwnPostCall(f) ==
    LET text == EffectiveText(f.update)
        body == IF strip(text) # <<>> THEN text_to_html(text) ELSE <<>>
    IN  [title |-> build_title_from_text(text, DefaultMaxLength),
         content_html |-> body \o _build_media_gallery(f.uploaded_media),
         media_ids |-> f.media_ids]

\* C25: with two updates handled concurrently, the title, content and
\* media_ids each hands to create_wp_post come from its own message and its
\* own uploads: the uploads entered in a frame are of its own descriptors and
\* were accepted for it, and every post created is the post of one request.
C25_NoCrossTalkBetweenUpdates ==
    /\ \A r \in Requests :
           LET f == h[r]
           IN  /\ f.post_call # None => Get(f.post_call) = OwnPostCall(f)
               /\ f.msg # None => f.msg = extract_message_entity(f.update)
               /\ \A k \in DOMAIN f.uploaded_media :
                      /\ InSeq(f.uploaded_media[k].descriptor,
                               collect_supported_media(Get(f.msg)))
                      /\ InSeq(f.uploaded_media[k], f.wp_accepted)
               /\ \A k \in DOMAIN f.media_ids : InSeq(f.media_ids[k], AcceptedIds(f))
    /\ \A k \in DOMAIN posts :
           \E r \in Requests :
               /\ h[r].post_outcome = "created"
               /\ posts[k] = PostPayload(OwnPostCall(h[r]).title,
                                         OwnPostCall(h[r]).content_html,
                                         OwnPostCall(h[r]).media_ids)

\* both handlers were suspended in their media pipelines at the same time and
\* both posts were created, the second request's first
C25_Witness ==
    /\ Len(posts) = 2
    /\ posts[1].title = <<"y">>
    /\ posts[2].title = <<"x">>
    /\ h["r1"].calls[1].fn = "get_file_direct_url"
    /\ h["r2"].calls[1].fn = "get_file_direct_url"
    /\ h["r1"].stage = <<"failed">>
    /\ h["r2"].stage = <<"failed">>
    /\ Len(h["r2"].calls) = 4

\* the message an update is about, None when it has none
UpdateMessage(update) ==
    IF update.channel_post # None THEN update.channel_post ELSE update.message

HasMedia(msg) ==
    \/ msg.photo # None /\ Get(msg.photo) # <<>>
    \/ msg.video # None
    \/ msg.animation # None
    \/ msg.document # None

\* the update has no message or one of the filters rejects it
Rejected(st, update) ==
    \/ UpdateMessage(update) = None
    \/ /\ st.chat_type_allowlist # <<>>
       /\ ~InSeq(Get(UpdateMessage(update)).chat.type, st.chat_type_allowlist)
    \/ strip(EffectiveText(update)) = <<>> /\ ~HasMedia(Get(UpdateMessage(update)))
    \/ /\ st.required_hashtag \notin {None, Some(<<>>)}
       /\ ~InSeq(Get(st.required_hashtag), UpdateHashtags(update))
    \/ /\ st.hashtag_allowlist \notin {None, Some(<<>>)}
       /\ ~SharesTag(Get(st.hashtag_allowlist), UpdateHashtags(update))
    \/ /\ st.hashtag_blocklist # None
       /\ SharesTag(Get(st.hashtag_blocklist), UpdateHashtags(update))

\* C26: for an update without message or rejected by a filter the handler
\* calls no collaborator (no get_file_direct_url, download_file,
\* upload_media_to_wp, create_wp_post), makes no post, and returns without
\* raising.
C26_RejectedUpdateCallsNothing ==
    \A r \in Requests :
        (h[r].invoked /\ Rejected(settings, h[r].update)) =>
            /\ h[r].pc \in {"handle", "done"}
            /\ h[r].calls = <<>>
            /\ h[r].post_call = None
            /\ \A i \in DOMAIN h[r].stage : h[r].stage[i] = "pending"
            /\ posts = <<>>
            /\ h[r].pc = "done" =>
                   /\ h[r].result = "returned"
                   /\ h[r].response = [status |-> 200, ok |-> TRUE, error |-> ""]

\* a message with media was rejected by the blocklist and handled to its end
C26_Witness ==
    \E r \in Requests :
        /\ h[r].pc = "done"
        /\ h[r].invoked
        /\ h[r].verdict = "hashtag_blocklist"
        /\ HasMedia(Get(UpdateMessage(h[r].update)))
        /\ h[r].calls = <<>>

\* C27: an accepted message with blank text whose media items all failed has
\* create_wp_post called exactly once, with the title '(no title)', empty
\* content and no media ids.
C27_PostWithoutContentWhenAllMediaFail ==
    \A r \in Requests :
        ( /\ h[r].pc = "done"
          /\ h[r].invoked
          /\ ~Rejected(settings, h[r].update)
          /\ strip(EffectiveText(h[r].update)) = <<>>
          /\ h[r].stage # <<>>
          /\ \A i \in DOMAIN h[r].stage : h[r].stage[i] = "failed" )
        => /\ Cardinality({ k \in DOMAIN h[r].calls :
                                h[r].calls[k].fn = "create_wp_post" }) = 1
           /\ h[r].post_call = Some([title |-> NoTitle, content_html |-> <<>>,
                                     media_ids |-> <<>>])

\* both descriptors of a message without text failed and the post was created
C27_Witness ==
    \E r \in Requests :
        /\ h[r].pc = "done"
        /\ EffectiveText(h[r].update) = <<>>
        /\ h[r].stage = <<"failed", "failed">>
        /\ h[r].post_outcome = "created"
        /\ posts = <<[title |-> NoTitle, content |-> <<>>, featured_media |-> None]>>

\* C28: with a required hashtag or a non-empty hashtag allowlist configured, a
\* message with media and neither text nor caption is never published and
\* none of its media is fetched or uploaded; the hashtags the filters see are
\* those of the effective text.
C28_MediaOnlyNeverPublishedUnderHashtagFilters ==
    \A r \in Requests :
        /\ ( /\ h[r].invoked
             /\ UpdateMessage(h[r].update) # None
             /\ HasMedia(Get(UpdateMessage(h[r].update)))
             /\ Get(UpdateMessage(h[r].update)).text = None
             /\ Get(UpdateMessage(h[r].update)).caption = None
             /\ \/ settings.required_hashtag \notin {None, Some(<<>>)}
                \/ settings.hashtag_allowlist \notin {None, Some(<<>>)} )
           => /\ h[r].post_call = None
              /\ h[r].calls = <<>>
              /\ h[r].hashtags = <<>>
              /\ posts = <<>>
        /\ h[r].verdict \in {"required_hashtag", "hashtag_allowlist",
                              "hashtag_blocklist", "accepted"}
           => h[r].hashtags = UpdateHashtags(h[r].update)

\* a media-only message was rejected by the allowlist alone
C28_Witness ==
    \E r \in Requests :
        /\ h[r].pc = "done"
        /\ h[r].verdict = "hashtag_allowlist"
        /\ settings.required_hashtag = None
        /\ HasMedia(Get(h[r].msg))
        /\ Get(h[r].msg).text = None
        /\ Get(h[r].msg).caption = None

\* C29: with no webhook secret configured (unset or empty) the endpoint
\* checks nothing: a request with any path secret is not answered 403 and
\* its update is passed to handle_telegram_update; set_webhook, under the same
\* configuration, raises whatever else is configured and registers nothing.
C29_NoSecretNoCheck ==
    ~TruthyStr(settings.telegram_webhook_secret) =>
        /\ \A r \in Requests :
               Started(h[r]) =>
                   /\ h[r].invoked
                   /\ h[r].response.status # 403
                   /\ h[r].pc = "done" => h[r].response.status = 200
        /\ \A bot_token_set \in BOOLEAN, public_base_url_set \in BOOLEAN,
              answer \in ApiAnswers :
               set_webhook_result(bot_token_set, public_base_url_set,
                                  settings.telegram_webhook_secret, answer).raised

\* with an empty secret configured a request with path secret 'x' was handled
\* and its post created
C29_Witness ==
    \E r \in Requests :
        /\ settings.telegram_webhook_secret = Some(<<>>)
        /\ h[r].secret = <<"x">>
        /\ h[r].invoked
        /\ h[r].pc = "done"
        /\ h[r].post_outcome = "created"

\* C30: get_webhook_info raises an error with the platform's description
\* when the envelope has ok = false, and for ok = true returns the url and
\* the pending update count of the envelope's result object.
C30_WebhookInfoFromResult ==
    ( /\ call.fn = "get_webhook_info"
      /\ call.arg.bot_token_set
      /\ ~call.arg.answer.status_error )
    => LET data == call.arg.answer.data
       IN  IF ~data.ok
           THEN call.ret.raised /\ call.ret.exc = Get(data.description)
           ELSE /\ ~call.ret.raised
                /\ call.ret.value.url = Get(data.result).url
                /\ call.ret.value.pending_update_count =
                       Get(data.result).pending_update_count

====
